---- MODULE Spec2Model ----
(***************************************************************************)
(* Model of the asynchronous job tracking of the video-insights service   *)
(* (src/app/main.py, src/app/youtube_client.py, src/app/nlp_pipeline.py). *)
(*                                                                         *)
(* The Redis server is a separate process shared by every handler, so the *)
(* unit of atomicity is one Redis command (GET, SETEX, DELETE).  Each     *)
(* request is a process whose program counter names the next command of   *)
(* its handler; handlers of different requests interleave at command      *)
(* boundaries.  All requests of the model are for the same video_id.      *)
(*                                                                         *)
(* Time is discrete: Tick lets TickSeconds seconds pass and expires keys. *)
(* Time passes only between requests and during the blocking network      *)
(* calls (caption provider, insight generation); consecutive Redis        *)
(* commands of one handler fall within one tick.  With a tick of half the *)
(* cache TTL a status or error entry lives for one tick and a transcript  *)
(* or insights entry for two.                                             *)
(***************************************************************************)
EXTENDS Integers, Sequences, FiniteSets, TLC

\* ------------------------------------------------------------- bounds --
MaxProcs == 2
MaxSegs == 2
MaxPathLen == 2
MaxQueryLen == 2
TickSeconds == 43200

\* ---------------------------------------------------------- constants --
STATUS_TTL == 3600
CACHE_TTL == 86400
NUM_TOPICS == 6

Procs == 1..MaxProcs

Keys == {"status", "error", "transcript", "insights"}

\* ------------------------------------------------------ the TTL store --
\* An entry is its value wrapped in a sequence (<<>> when the key is
\* absent) with the remaining time to live in seconds.
Absent == [val |-> <<>>, ttl |-> 0]

Has(s, k) == s[k].val # <<>>

SetEx(s, k, t, v) == [s EXCEPT ![k] = [val |-> <<v>>, ttl |-> t]]

Delete(s, k) == [s EXCEPT ![k] = Absent]

Expire(s, d) ==
    [k \in Keys |-> IF s[k].ttl > d
                    THEN [val |-> s[k].val, ttl |-> s[k].ttl - d]
                    ELSE Absent]

\* redis_client.get of a string-valued key; "" stands for Python's None
\* (both are falsy in the handlers' "if not status" tests).
GetStr(s, k) == IF Has(s, k) THEN s[k].val[1] ELSE ""

\* json.dumps / json.loads of the structured values
JsonDumps(x) == [json |-> x]

JsonLoads(j) == j.json

\* ------------------------------------------------ transcript provider --
Segment(t) == [text |-> t, start |-> 0, duration |-> 0]

CaptionText(n) == IF n = 1 THEN "caption one" ELSE "caption more"

\* The segment lists the provider can hand back, the empty one included.
ApiSegments == { [k \in 1..n |-> Segment(CaptionText(k))] : n \in 0..MaxSegs }

\* What YouTubeTranscriptApi.get_transcript does: it returns segments,
\* raises TranscriptsDisabled / NoTranscriptFound, or raises anything else.
ProviderOutcomes ==
    { [kind |-> "segments", segs |-> l] : l \in ApiSegments } \cup
    { [kind |-> "no_transcript", segs |-> <<>>], [kind |-> "error", segs |-> <<>>] }

\* Both except clauses return None.
fetch_transcript_from_api(o) ==
    IF o.kind = "segments" THEN [none |-> FALSE, segs |-> o.segs]
    ELSE [none |-> TRUE, segs |-> <<>>]

\* get_mock_transcript: the titled template when the metadata lookup gives
\* a title and a description, the generic template otherwise.
MockTexts == {"mock titled", "mock generic"}

get_mock_transcript(details) ==
    IF details THEN "mock titled" ELSE "mock generic"

TranscriptData(src, segs) == [source |-> src, segments |-> segs]

\* ---------------------------------------------------- insight records --
\* The topic table: eight topics, named by their place in the table, each
\* with three predefined insight texts.
TopicTable == [t \in 1..8 |-> <<"predefined a", "predefined b", "predefined c">>]

\* random.sample(keys, 6): six distinct topics of the table. The order of
\* the sample plays no part in the function, so the samples are taken in
\* table order: the table without two of its topics.
Samples ==
    { SelectSeq([t \in DOMAIN TopicTable |-> t], LAMBDA t : t # left[1] /\ t # left[2]) :
        left \in {q \in (DOMAIN TopicTable) \X (DOMAIN TopicTable) : q[1] < q[2]} }

\* Words of a transcript that the keyword lists know, and one they do not.
SentimentWords == {"good", "risk", "meeting"}

Occurrences(segs, w) == Cardinality({k \in 1..Len(segs) : segs[k].text = w})

\* analyze_sentiment_simple: positive_count > negative_count * 1.5,
\* negative_count > positive_count * 1.5, or neither.
analyze_sentiment_simple(segs) ==
    LET positive_count == Occurrences(segs, "good")
        negative_count == Occurrences(segs, "risk")
    IN IF 2 * positive_count > 3 * negative_count THEN "positive"
       ELSE IF 2 * negative_count > 3 * positive_count THEN "negative"
       ELSE "neutral"

\* What the chat completion does for one topic: text with bullet lines,
\* blank text, or an exception.
GptOutcomes == {"bullets", "blank", "error"}

GptFallback == <<"comprehensive policies", "monitor regulations">>

\* Faulty variant: a blank completion gives an empty insight list.
generate_insights_with_gpt_bare(topic, o) ==
    IF o = "error" THEN GptFallback
    ELSE IF o = "blank" THEN <<>>
    ELSE <<"generated a", "generated b">>

\* generate_insights_with_gpt: every exception is caught inside and
\* answered with the two fallback texts; blank text is kept as one insight.
generate_insights_with_gpt(topic, o) ==
    IF o = "error" THEN GptFallback
    ELSE IF o = "blank" THEN <<"">>
    ELSE <<"generated a", "generated b">>

\* extract_insights for a given sample, with the model key configured or
\* not and one completion outcome per selected topic.
extract_insights_for(selected_topics, segs, configured, outs) ==
    [k \in 1..Len(selected_topics) |->
        [name |-> selected_topics[k],
         sentiment |-> analyze_sentiment_simple(segs),
         insights |-> IF configured
                      THEN generate_insights_with_gpt(selected_topics[k], outs[k])
                      ELSE TopicTable[selected_topics[k]]]]

NoOutcomes == [k \in 1..NUM_TOPICS |-> "unused"]

\* extract_insights as the request handlers see it: the first sample, no
\* model key.
extract_insights(segs) ==
    extract_insights_for([k \in 1..NUM_TOPICS |-> k], segs, FALSE, NoOutcomes)

\* -------------------------------------------------------------- state --
VARIABLES
    store,      \* the Redis keys of the video_id
    pc,         \* per request: the next command of its handler
    kind,       \* per request: "submit" (POST /videos/process and its job) or "sync" (POST /process)
    tdata,      \* per request: local transcript_data (<<>> before it is assigned)
    ins,        \* per request: local insights (<<>> before it is assigned)
    exc,        \* per request: str(e) of the exception being handled ("" when none)
    resp,       \* per request: the HTTP response of its handler
    tasks,      \* per request: background tasks added and not yet started
    prov,       \* per request: what the caption provider did, while get_transcript builds its result (<<>> otherwise)
    cached,     \* per request: local cached_transcript of get_transcript, until the caller goes on (<<>> when the lookup missed)
    url,        \* the URL handed to extract_video_id
    video_id,   \* what extract_video_id returned for it (<<>> before the call)
    nlp_in,     \* the arguments and environment of an extract_insights call (<<>> when none)
    results,    \* what that call returned (<<>> before it returns)
    whisper_in, \* the environment of a fallback_whisper call (<<>> when none)
    transcript, \* what that call returned (<<>> before it returns)
    redis,      \* the Redis keys of several video_ids, with the keys the last command named (<<>> when unused)
    wrote,      \* history: per request, the values it wrote to status, in order
    statusBy,   \* history: <<request, handler>> of the last write of status (<<>> if absent)
    errBy,      \* history: request that wrote the error entry (0 if absent, -1 once that request is forgotten)
    stale,      \* history: per submission, the error entry is still the one a finished run left before it started
    hadStale,   \* history: per submission, such an entry existed when it started
    live,       \* history: a submission has returned and status has not expired since
    before,     \* history: per request, the requests in flight when it started
    alone       \* history: per request, no other request was in flight during it

locals == <<tdata, ins, exc, resp, tasks, prov, cached>>
calls == <<nlp_in, results, whisper_in, transcript, redis>>
pure == <<url, video_id, nlp_in, results, whisper_in, transcript, redis>>
hist == <<wrote, statusBy, errBy, stale, hadStale, live, before, alone>>
vars == <<store, pc, kind, tdata, ins, exc, resp, tasks, prov, cached, url, video_id, nlp_in, results, whisper_in, transcript, redis,
          wrote, statusBy, errBy, stale, hadStale, live, before, alone>>

NoResp == [code |-> 0, body |-> "none"]

\* No URL has been handed to extract_video_id.
NoUrl == [scheme |-> FALSE, host |-> "", segs |-> <<>>, slash |-> FALSE, query |-> <<>>]

Init ==
    /\ store = [k \in Keys |-> Absent]
    /\ pc = [i \in Procs |-> "idle"]
    /\ kind = [i \in Procs |-> "none"]
    /\ tdata = [i \in Procs |-> <<>>]
    /\ ins = [i \in Procs |-> <<>>]
    /\ exc = [i \in Procs |-> ""]
    /\ resp = [i \in Procs |-> NoResp]
    /\ tasks = [i \in Procs |-> 0]
    /\ prov = [i \in Procs |-> <<>>]
    /\ cached = [i \in Procs |-> <<>>]
    /\ url = NoUrl
    /\ video_id = <<>>
    /\ nlp_in = <<>>
    /\ results = <<>>
    /\ whisper_in = <<>>
    /\ transcript = <<>>
    /\ redis = <<>>
    /\ wrote = [i \in Procs |-> <<>>]
    /\ statusBy = <<>>
    /\ errBy = 0
    /\ stale = [i \in Procs |-> FALSE]
    /\ hadStale = [i \in Procs |-> FALSE]
    /\ live = FALSE
    /\ before = [i \in Procs |-> {}]
    /\ alone = [i \in Procs |-> FALSE]

\* --------------------------------------------------- store commands ----
\* Each command updates the store and the history variables that follow
\* the status and error entries.
InFlight(i) == pc[i] \notin {"idle", "done"}

SetStatus(i, who, v) ==
    /\ store' = SetEx(store, "status", STATUS_TTL, v)
    /\ statusBy' = <<i, who>>
    /\ wrote' = [wrote EXCEPT ![i] = Append(@, v)]
    /\ UNCHANGED <<errBy, stale>>

DeleteStatus(i) ==
    /\ store' = Delete(store, "status")
    /\ statusBy' = <<>>
    /\ UNCHANGED <<wrote, errBy, stale>>

SetError(i, detail) ==
    /\ store' = SetEx(store, "error", STATUS_TTL, detail)
    /\ errBy' = i
    /\ stale' = [j \in Procs |-> FALSE]
    /\ UNCHANGED <<wrote, statusBy>>

DeleteError(i) ==
    /\ store' = Delete(store, "error")
    /\ errBy' = 0
    /\ stale' = [j \in Procs |-> FALSE]
    /\ UNCHANGED <<wrote, statusBy>>

\* Faulty variant: the caches are written with the bookkeeping TTL.
SetCache_short(k, v) ==
    /\ store' = SetEx(store, k, STATUS_TTL, JsonDumps(v))
    /\ UNCHANGED <<wrote, statusBy, errBy, stale>>

SetCache(k, v) ==
    /\ store' = SetEx(store, k, CACHE_TTL, JsonDumps(v))
    /\ UNCHANGED <<wrote, statusBy, errBy, stale>>

NoStore == UNCHANGED <<store, wrote, statusBy, errBy, stale>>

Goto(i, l) == pc' = [pc EXCEPT ![i] = l]

\* The run that wrote the error entry has ended.
ErrEnded == errBy = -1 \/ (errBy \in Procs /\ pc[errBy] = "done")

\* --------------------------------------------------- a request starts --
Begin(i, k) ==
    /\ kind' = [kind EXCEPT ![i] = k]
    /\ before' = [before EXCEPT ![i] = {j \in Procs : InFlight(j)}]
    /\ alone' = [j \in Procs |->
                    IF j = i THEN \A o \in Procs : ~InFlight(o)
                    ELSE IF InFlight(j) THEN FALSE ELSE alone[j]]
    /\ stale' = [stale EXCEPT ![i] = (k = "submit" /\ Has(store, "error") /\ ErrEnded)]
    /\ hadStale' = [hadStale EXCEPT ![i] = (k = "submit" /\ Has(store, "error") /\ ErrEnded)]

\* ------------------------------- POST /videos/process (main.py 46-69) --
\* extract_video_id either yields the video_id or raises (urlparse on a
\* malformed URL), which the handler turns into a 400.
SubmitStart(i, urlOk) ==
    /\ pc[i] = "idle"
    /\ Begin(i, "submit")
    /\ IF urlOk
       THEN /\ Goto(i, "s_del_status")
            /\ UNCHANGED resp
       ELSE /\ Goto(i, "done")
            /\ resp' = [resp EXCEPT ![i] = [code |-> 400, body |-> "error"]]
    /\ UNCHANGED <<store, tdata, ins, exc, tasks, prov, cached, wrote, statusBy, errBy, live>>
    /\ UNCHANGED pure

\* Faulty variant: the handler clears every key of the video_id.
SubmitDelStatus_all(i) ==
    /\ pc[i] = "s_del_status"
    /\ store' = Delete(Delete(store, "status"), "transcript")
    /\ statusBy' = <<>>
    /\ UNCHANGED <<wrote, errBy, stale>>
    /\ Goto(i, "s_del_error")
    /\ UNCHANGED <<kind, locals, hadStale, live, before, alone>>
    /\ UNCHANGED pure

SubmitDelStatus(i) ==
    /\ pc[i] = "s_del_status"
    /\ DeleteStatus(i)
    /\ Goto(i, "s_del_error")
    /\ UNCHANGED <<kind, locals, hadStale, live, before, alone>>
    /\ UNCHANGED pure

\* Faulty variant: the handler does not clear the error entry.
SubmitDelError_skip(i) ==
    /\ pc[i] = "s_del_error"
    /\ NoStore
    /\ Goto(i, "s_set_pending")
    /\ UNCHANGED <<kind, locals, hadStale, live, before, alone>>
    /\ UNCHANGED pure

SubmitDelError(i) ==
    /\ pc[i] = "s_del_error"
    /\ DeleteError(i)
    /\ Goto(i, "s_set_pending")
    /\ UNCHANGED <<kind, locals, hadStale, live, before, alone>>
    /\ UNCHANGED pure

SubmitSetPending(i) ==
    /\ pc[i] = "s_set_pending"
    /\ SetStatus(i, "submit", "pending")
    /\ Goto(i, "s_return")
    /\ UNCHANGED <<kind, locals, hadStale, live, before, alone>>
    /\ UNCHANGED pure

\* background_tasks.add_task(process_video, ...) and the 200 response
SubmitReturn(i) ==
    /\ pc[i] = "s_return"
    /\ tasks' = [tasks EXCEPT ![i] = @ + 1]
    /\ resp' = [resp EXCEPT ![i] = [code |-> 200, body |-> "pending"]]
    /\ live' = TRUE
    /\ Goto(i, "queued")
    /\ NoStore
    /\ UNCHANGED <<kind, tdata, ins, exc, prov, cached, hadStale, before, alone>>
    /\ UNCHANGED pure

\* ------------------------ get_transcript (youtube_client.py 237-354) --
\* Entered from fetch_transcript with the store as redis_client, by the
\* background job and by the synchronous handler alike.
ChainReturn(i) == IF kind[i] = "submit" THEN "j_insights" ELSE "p_insights"

ChainRaise(i) == IF kind[i] = "submit" THEN "j_set_error" ELSE "p_fail"

ChainDelError(i) ==
    /\ pc[i] = "g_del_error"
    /\ DeleteError(i)
    /\ Goto(i, "g_del_status")
    /\ UNCHANGED <<kind, locals, hadStale, live, before, alone>>
    /\ UNCHANGED pure

ChainDelStatus(i) ==
    /\ pc[i] = "g_del_status"
    /\ DeleteStatus(i)
    /\ Goto(i, "g_set_pending")
    /\ UNCHANGED <<kind, locals, hadStale, live, before, alone>>
    /\ UNCHANGED pure

\* Faulty variant: get_transcript does not write the pending status.
ChainSetPending_keep(i) ==
    /\ pc[i] = "g_set_pending"
    /\ Goto(i, "g_cache_get")
    /\ NoStore
    /\ UNCHANGED <<kind, locals, hadStale, live, before, alone>>
    /\ UNCHANGED pure

ChainSetPending(i) ==
    /\ pc[i] = "g_set_pending"
    /\ SetStatus(i, "chain", "pending")
    /\ Goto(i, "g_cache_get")
    /\ UNCHANGED <<kind, locals, hadStale, live, before, alone>>
    /\ UNCHANGED pure

\* Faulty variant: the cache is not consulted.
ChainCacheGet_refetch(i) ==
    /\ pc[i] = "g_cache_get"
    /\ cached' = [cached EXCEPT ![i] = <<>>]
    /\ Goto(i, "g_fetch")
    /\ NoStore
    /\ UNCHANGED <<kind, tdata, ins, exc, resp, tasks, prov, hadStale, live, before, alone>>
    /\ UNCHANGED pure

\* Cache check: a hit returns the decoded entry, a miss goes to the provider.
ChainCacheGet(i) ==
    /\ pc[i] = "g_cache_get"
    /\ cached' = [cached EXCEPT ![i] = store["transcript"].val]
    /\ IF Has(store, "transcript")
       THEN /\ tdata' = [tdata EXCEPT ![i] = <<JsonLoads(store["transcript"].val[1])>>]
            /\ Goto(i, ChainReturn(i))
       ELSE /\ Goto(i, "g_fetch")
            /\ UNCHANGED tdata
    /\ NoStore
    /\ UNCHANGED <<kind, ins, exc, resp, tasks, prov, hadStale, live, before, alone>>
    /\ UNCHANGED pure

\* Faulty variant: the fallback result carries no segment.
ChainFetch_nomock(i, o, details) ==
    /\ pc[i] = "g_fetch"
    /\ prov' = [prov EXCEPT ![i] = <<o>>]
    /\ LET transcript_list == fetch_transcript_from_api(o) IN
       tdata' = [tdata EXCEPT ![i] =
                   IF ~transcript_list.none /\ Len(transcript_list.segs) > 0
                   THEN <<TranscriptData("youtube_api", transcript_list.segs)>>
                   ELSE <<TranscriptData("mock_data", <<>>)>>]
    /\ Goto(i, "g_cache_set")
    /\ NoStore
    /\ UNCHANGED <<kind, ins, exc, resp, tasks, cached, hadStale, live, before, alone>>
    /\ UNCHANGED pure

\* Faulty variant: a provider error is not swallowed but raised.
ChainFetch_propagate(i, o, details) ==
    /\ pc[i] = "g_fetch"
    /\ prov' = [prov EXCEPT ![i] = <<o>>]
    /\ IF o.kind = "error"
       THEN /\ exc' = [exc EXCEPT ![i] = "transcript failure"]
            /\ Goto(i, "g_set_error")
            /\ UNCHANGED tdata
       ELSE /\ LET transcript_list == fetch_transcript_from_api(o) IN
               tdata' = [tdata EXCEPT ![i] =
                   IF ~transcript_list.none /\ Len(transcript_list.segs) > 0
                   THEN <<TranscriptData("youtube_api", transcript_list.segs)>>
                   ELSE <<TranscriptData("mock_data", <<Segment(get_mock_transcript(details))>>)>>]
            /\ Goto(i, "g_cache_set")
            /\ UNCHANGED exc
    /\ NoStore
    /\ UNCHANGED <<kind, ins, resp, tasks, cached, hadStale, live, before, alone>>
    /\ UNCHANGED pure

\* The provider call and the result built from it: the segments of the
\* provider under source youtube_api, or, when transcript_list is falsy,
\* one segment holding the mock transcript under source mock_data.  The
\* metadata lookup of the mock transcript gives details or not.
ChainFetch(i, o, details) ==
    /\ pc[i] = "g_fetch"
    /\ prov' = [prov EXCEPT ![i] = <<o>>]
    /\ LET transcript_list == fetch_transcript_from_api(o) IN
       tdata' = [tdata EXCEPT ![i] =
                   IF ~transcript_list.none /\ Len(transcript_list.segs) > 0
                   THEN <<TranscriptData("youtube_api", transcript_list.segs)>>
                   ELSE <<TranscriptData("mock_data", <<Segment(get_mock_transcript(details))>>)>>]
    /\ Goto(i, "g_cache_set")
    /\ NoStore
    /\ UNCHANGED <<kind, ins, exc, resp, tasks, cached, hadStale, live, before, alone>>
    /\ UNCHANGED pure

\* The result is cached and returned, or the SETEX raises (the store
\* refuses the write) and the except block takes over.
ChainCacheSet(i, raises) ==
    /\ pc[i] = "g_cache_set"
    /\ prov' = [prov EXCEPT ![i] = <<>>]
    /\ IF raises
       THEN /\ exc' = [exc EXCEPT ![i] = "transcript failure"]
            /\ Goto(i, "g_set_error")
            /\ NoStore
       ELSE /\ SetCache("transcript", tdata[i][1])
            /\ Goto(i, ChainReturn(i))
            /\ UNCHANGED exc
    /\ UNCHANGED <<kind, tdata, ins, resp, tasks, cached, hadStale, live, before, alone>>
    /\ UNCHANGED pure

\* except Exception: record the error, then re-raise to the caller
ChainSetError(i) ==
    /\ pc[i] = "g_set_error"
    /\ SetError(i, exc[i])
    /\ Goto(i, "g_set_status_error")
    /\ UNCHANGED <<kind, locals, hadStale, live, before, alone>>
    /\ UNCHANGED pure

ChainSetStatusError(i) ==
    /\ pc[i] = "g_set_status_error"
    /\ SetStatus(i, "chain", "error")
    /\ Goto(i, ChainRaise(i))
    /\ UNCHANGED <<kind, locals, hadStale, live, before, alone>>
    /\ UNCHANGED pure

\* ------------------------ process_video, the job (main.py 166-199) ----
JobStart(i) ==
    /\ pc[i] = "queued"
    /\ tasks[i] > 0
    /\ tasks' = [tasks EXCEPT ![i] = @ - 1]
    /\ Goto(i, "j_del_status")
    /\ NoStore
    /\ UNCHANGED <<kind, tdata, ins, exc, resp, prov, cached, hadStale, live, before, alone>>
    /\ UNCHANGED pure

JobDelStatus(i) ==
    /\ pc[i] = "j_del_status"
    /\ DeleteStatus(i)
    /\ Goto(i, "j_del_error")
    /\ UNCHANGED <<kind, locals, hadStale, live, before, alone>>
    /\ UNCHANGED pure

\* Faulty variant: the job clears the insights of the last run as well.
JobDelError_purge(i) ==
    /\ pc[i] = "j_del_error"
    /\ store' = Delete(Delete(store, "error"), "insights")
    /\ errBy' = 0
    /\ stale' = [j \in Procs |-> FALSE]
    /\ Goto(i, "j_set_processing")
    /\ UNCHANGED <<wrote, statusBy>>
    /\ UNCHANGED <<kind, locals, hadStale, live, before, alone>>
    /\ UNCHANGED pure

JobDelError(i) ==
    /\ pc[i] = "j_del_error"
    /\ DeleteError(i)
    /\ Goto(i, "j_set_processing")
    /\ UNCHANGED <<kind, locals, hadStale, live, before, alone>>
    /\ UNCHANGED pure

JobSetProcessing(i) ==
    /\ pc[i] = "j_set_processing"
    /\ SetStatus(i, "job", "processing")
    /\ Goto(i, "g_del_error")
    /\ UNCHANGED <<kind, locals, hadStale, live, before, alone>>
    /\ UNCHANGED pure

\* transcript_data["segments"], then extract_insights, which returns the
\* records or raises
JobInsights(i, raises) ==
    /\ pc[i] = "j_insights"
    /\ IF raises
       THEN /\ exc' = [exc EXCEPT ![i] = "insights failure"]
            /\ Goto(i, "j_set_error")
            /\ UNCHANGED ins
       ELSE /\ ins' = [ins EXCEPT ![i] = <<extract_insights(tdata[i][1].segments)>>]
            /\ Goto(i, "j_set_insights")
            /\ UNCHANGED exc
    /\ cached' = [cached EXCEPT ![i] = <<>>]
    /\ NoStore
    /\ UNCHANGED <<kind, tdata, resp, tasks, prov, hadStale, live, before, alone>>
    /\ UNCHANGED pure

\* Faulty variant: the job does not cache the insights before it flips status.
JobSetInsights_skip(i) ==
    /\ pc[i] = "j_set_insights"
    /\ NoStore
    /\ Goto(i, "j_set_completed")
    /\ UNCHANGED <<kind, locals, hadStale, live, before, alone>>
    /\ UNCHANGED pure

JobSetInsights(i) ==
    /\ pc[i] = "j_set_insights"
    /\ SetCache("insights", ins[i][1])
    /\ Goto(i, "j_set_completed")
    /\ UNCHANGED <<kind, locals, hadStale, live, before, alone>>
    /\ UNCHANGED pure

\* Faulty variant: the completion write waits until no other request is in flight.
JobSetCompleted_locked(i) ==
    /\ pc[i] = "j_set_completed"
    /\ \A j \in Procs \ {i} : ~InFlight(j)
    /\ SetStatus(i, "job", "completed")
    /\ Goto(i, "done")
    /\ UNCHANGED <<kind, locals, hadStale, live, before, alone>>
    /\ UNCHANGED pure

JobSetCompleted(i) ==
    /\ pc[i] = "j_set_completed"
    /\ SetStatus(i, "job", "completed")
    /\ Goto(i, "done")
    /\ UNCHANGED <<kind, locals, hadStale, live, before, alone>>
    /\ UNCHANGED pure

\* except Exception: error detail first, error status second
\* Faulty variant: the except block records the status but not the detail.
JobSetError_skip(i) ==
    /\ pc[i] = "j_set_error"
    /\ NoStore
    /\ Goto(i, "j_set_status_error")
    /\ UNCHANGED <<kind, locals, hadStale, live, before, alone>>
    /\ UNCHANGED pure

JobSetError(i) ==
    /\ pc[i] = "j_set_error"
    /\ SetError(i, exc[i])
    /\ Goto(i, "j_set_status_error")
    /\ UNCHANGED <<kind, locals, hadStale, live, before, alone>>
    /\ UNCHANGED pure

JobSetStatusError(i) ==
    /\ pc[i] = "j_set_status_error"
    /\ SetStatus(i, "job", "error")
    /\ Goto(i, "done")
    /\ UNCHANGED <<kind, locals, hadStale, live, before, alone>>
    /\ UNCHANGED pure

\* ------------------------------- POST /process (main.py 106-164) ------
SyncStart(i, urlOk) ==
    /\ pc[i] = "idle"
    /\ Begin(i, "sync")
    /\ IF urlOk
       THEN /\ Goto(i, "p_del_status")
            /\ UNCHANGED resp
       ELSE /\ Goto(i, "done")
            /\ resp' = [resp EXCEPT ![i] = [code |-> 500, body |-> "error"]]
    /\ UNCHANGED <<store, tdata, ins, exc, tasks, prov, cached, wrote, statusBy, errBy, live>>
    /\ UNCHANGED pure

SyncDelStatus(i) ==
    /\ pc[i] = "p_del_status"
    /\ DeleteStatus(i)
    /\ Goto(i, "p_del_error")
    /\ UNCHANGED <<kind, locals, hadStale, live, before, alone>>
    /\ UNCHANGED pure

SyncDelError(i) ==
    /\ pc[i] = "p_del_error"
    /\ DeleteError(i)
    /\ Goto(i, "g_del_error")
    /\ UNCHANGED <<kind, locals, hadStale, live, before, alone>>
    /\ UNCHANGED pure

\* The text of the response: the segment texts in order (joined by " ").
FullTranscript(segs) == [k \in 1..Len(segs) |-> segs[k].text]

\* Faulty variant: when the generator fails the handler returns what it has.
SyncRespond_partial(i, raises) ==
    /\ pc[i] = "p_insights"
    /\ LET segs == tdata[i][1].segments IN
       IF Len(segs) = 0
       THEN /\ resp' = [resp EXCEPT ![i] = [code |-> 500, body |-> "error"]]
            /\ UNCHANGED ins
       ELSE IF raises
       THEN /\ resp' = [resp EXCEPT ![i] = [code |-> 200, transcript |-> FullTranscript(segs)]]
            /\ UNCHANGED ins
       ELSE /\ ins' = [ins EXCEPT ![i] = <<extract_insights(segs)>>]
            /\ resp' = [resp EXCEPT ![i] =
                  [code |-> 200, topics |-> extract_insights(segs), transcript |-> FullTranscript(segs)]]
    /\ Goto(i, "done")
    /\ cached' = [cached EXCEPT ![i] = <<>>]
    /\ NoStore
    /\ UNCHANGED <<kind, tdata, exc, tasks, prov, hadStale, live, before, alone>>
    /\ UNCHANGED pure

\* The format checks, the joined transcript and extract_insights, which
\* returns the records or raises; any exception becomes the 500.
SyncRespond(i, raises) ==
    /\ pc[i] = "p_insights"
    /\ LET segs == tdata[i][1].segments IN
       IF raises \/ Len(segs) = 0
       THEN /\ resp' = [resp EXCEPT ![i] = [code |-> 500, body |-> "error"]]
            /\ UNCHANGED ins
       ELSE /\ ins' = [ins EXCEPT ![i] = <<extract_insights(segs)>>]
            /\ resp' = [resp EXCEPT ![i] =
                  [code |-> 200, topics |-> extract_insights(segs), transcript |-> FullTranscript(segs)]]
    /\ Goto(i, "done")
    /\ cached' = [cached EXCEPT ![i] = <<>>]
    /\ NoStore
    /\ UNCHANGED <<kind, tdata, exc, tasks, prov, hadStale, live, before, alone>>
    /\ UNCHANGED pure

\* get_transcript re-raised: the 500 response
SyncFail(i) ==
    /\ pc[i] = "p_fail"
    /\ resp' = [resp EXCEPT ![i] = [code |-> 500, body |-> "error"]]
    /\ Goto(i, "done")
    /\ NoStore
    /\ UNCHANGED <<kind, tdata, ins, exc, tasks, prov, cached, hadStale, live, before, alone>>
    /\ UNCHANGED pure

\* ----------------------------------------------------- environment ----
\* The request slot is reused by a later request.
Forget(i) ==
    /\ pc[i] = "done"
    /\ Goto(i, "idle")
    /\ kind' = [kind EXCEPT ![i] = "none"]
    /\ tdata' = [tdata EXCEPT ![i] = <<>>]
    /\ ins' = [ins EXCEPT ![i] = <<>>]
    /\ exc' = [exc EXCEPT ![i] = ""]
    /\ resp' = [resp EXCEPT ![i] = NoResp]
    /\ prov' = [prov EXCEPT ![i] = <<>>]
    /\ cached' = [cached EXCEPT ![i] = <<>>]
    /\ wrote' = [wrote EXCEPT ![i] = <<>>]
    /\ statusBy' = IF statusBy # <<>> /\ statusBy[1] = i THEN <<0, statusBy[2]>> ELSE statusBy
    /\ errBy' = IF errBy = i THEN -1 ELSE errBy
    /\ hadStale' = [hadStale EXCEPT ![i] = FALSE]
    /\ stale' = [stale EXCEPT ![i] = FALSE]
    /\ before' = [j \in Procs |-> IF j = i THEN {} ELSE before[j] \ {i}]
    /\ alone' = [alone EXCEPT ![i] = FALSE]
    /\ UNCHANGED <<store, tasks, live>>
    /\ UNCHANGED pure

\* Places where a handler waits on the network, or is not running.
TimePcs == {"idle", "queued", "g_fetch", "j_insights", "p_insights", "done"}

\* TickSeconds seconds pass; Redis drops the entries whose TTL has run out.
Tick ==
    /\ \A i \in Procs : pc[i] \in TimePcs
    /\ \E k \in Keys : Has(store, k)
    /\ store' = Expire(store, TickSeconds)
    /\ statusBy' = IF Has(store', "status") THEN statusBy ELSE <<>>
    /\ errBy' = IF Has(store', "error") THEN errBy ELSE 0
    /\ stale' = IF Has(store', "error") THEN stale ELSE [j \in Procs |-> FALSE]
    /\ live' = (live /\ Has(store', "status"))
    /\ UNCHANGED <<pc, kind, locals, wrote, hadStale, before, alone>>
    /\ UNCHANGED pure

Next ==
    \/ \E i \in Procs, urlOk \in BOOLEAN : SubmitStart(i, urlOk)
    \/ \E i \in Procs : SubmitDelStatus(i)
    \/ \E i \in Procs : SubmitDelError(i)
    \/ \E i \in Procs : SubmitSetPending(i)
    \/ \E i \in Procs : SubmitReturn(i)
    \/ \E i \in Procs : JobStart(i)
    \/ \E i \in Procs : JobDelStatus(i)
    \/ \E i \in Procs : JobDelError(i)
    \/ \E i \in Procs : JobSetProcessing(i)
    \/ \E i \in Procs : ChainDelError(i)
    \/ \E i \in Procs : ChainDelStatus(i)
    \/ \E i \in Procs : ChainSetPending(i)
    \/ \E i \in Procs : ChainCacheGet(i)
    \/ \E i \in Procs, o \in ProviderOutcomes, details \in BOOLEAN : ChainFetch(i, o, details)
    \/ \E i \in Procs, raises \in BOOLEAN : ChainCacheSet(i, raises)
    \/ \E i \in Procs : ChainSetError(i)
    \/ \E i \in Procs : ChainSetStatusError(i)
    \/ \E i \in Procs, raises \in BOOLEAN : JobInsights(i, raises)
    \/ \E i \in Procs : JobSetInsights(i)
    \/ \E i \in Procs : JobSetCompleted(i)
    \/ \E i \in Procs : JobSetError(i)
    \/ \E i \in Procs : JobSetStatusError(i)
    \/ \E i \in Procs, urlOk \in BOOLEAN : SyncStart(i, urlOk)
    \/ \E i \in Procs : SyncDelStatus(i)
    \/ \E i \in Procs : SyncDelError(i)
    \/ \E i \in Procs, raises \in BOOLEAN : SyncRespond(i, raises)
    \/ \E i \in Procs : SyncFail(i)
    \/ \E i \in Procs : Forget(i)
    \/ Tick

Spec == Init /\ [][Next]_vars

TypeOK ==
    /\ \A k \in Keys : store[k].ttl \in 0..CACHE_TTL
    /\ pc \in [Procs -> STRING]

\* --------------------------------------- poll endpoints (main.py 71-104) --
Response(c, d, b) == [code |-> c, detail |-> d, body |-> b]

get_video_status(s) ==
    IF GetStr(s, "status") = "" THEN "not_found" ELSE GetStr(s, "status")

\* Faulty variant: cached insights are served whatever the status is.
get_video_insights_m(s) ==
    IF Has(s, "insights") THEN Response(200, "", JsonLoads(s["insights"].val[1]))
    ELSE IF GetStr(s, "status") = "" THEN Response(404, "Video not found", <<>>)
    ELSE IF GetStr(s, "status") # "completed" THEN Response(400, "Video processing is", <<>>)
    ELSE Response(404, "Insights not found", <<>>)

get_video_insights(s) ==
    IF GetStr(s, "status") = "" THEN Response(404, "Video not found", <<>>)
    ELSE IF GetStr(s, "status") # "completed" THEN Response(400, "Video processing is", <<>>)
    ELSE IF ~Has(s, "insights") THEN Response(404, "Insights not found", <<>>)
    ELSE Response(200, "", JsonLoads(s["insights"].val[1]))

\* Faulty variant: a stored error detail is served whatever the status is.
get_video_error_m(s) ==
    IF Has(s, "error") THEN Response(200, "", <<GetStr(s, "error")>>)
    ELSE IF GetStr(s, "status") = "" \/ GetStr(s, "status") # "error"
    THEN Response(404, "No error found", <<>>)
    ELSE Response(200, "", <<"Unknown error">>)

get_video_error(s) ==
    IF GetStr(s, "status") = "" \/ GetStr(s, "status") # "error"
    THEN Response(404, "No error found", <<>>)
    ELSE Response(200, "", <<IF Has(s, "error") THEN GetStr(s, "error") ELSE "Unknown error">>)

\* ------------------------------------------ the poll endpoints, run --
\* Faulty variant: a poll consumes the error entry it may have read.
Poll_consume(i, k, r) ==
    /\ pc[i] = "idle"
    /\ kind' = [kind EXCEPT ![i] = k]
    /\ resp' = [resp EXCEPT ![i] = r]
    /\ Goto(i, "done")
    /\ store' = Delete(store, "error")
    /\ UNCHANGED <<wrote, statusBy, errBy, stale>>
    /\ UNCHANGED <<tdata, ins, exc, tasks, prov, cached, hadStale, live, before, alone>>
    /\ UNCHANGED pure

\* A poll reads the store and answers; it writes nothing.
Poll(i, k, r) ==
    /\ pc[i] = "idle"
    /\ kind' = [kind EXCEPT ![i] = k]
    /\ resp' = [resp EXCEPT ![i] = r]
    /\ Goto(i, "done")
    /\ NoStore
    /\ UNCHANGED <<tdata, ins, exc, tasks, prov, cached, hadStale, live, before, alone>>
    /\ UNCHANGED pure

PollStatus(i) == Poll(i, "poll_status", Response(200, "", <<get_video_status(store)>>))

PollInsights(i) == Poll(i, "poll_insights", get_video_insights(store))

PollError(i) == Poll(i, "poll_error", get_video_error(store))

\* What the four keys of one video can hold when a poll arrives: any
\* status value or none, an error detail or none, an insight list or none,
\* a transcript or none: every content a request in progress can leave
\* (completed without insights is the state the insights handler guards
\* against: an entry lost on the Redis side).
StatusValues == {"pending", "processing", "completed", "error"}

ErrorDetails == {"transcript failure", "insights failure"}

PollStores ==
    { [k \in Keys |->
         CASE k = "status" -> st
           [] k = "error" -> er
           [] k = "insights" -> inz
           [] OTHER -> tr] :
      st \in {Absent} \cup { [val |-> <<v>>, ttl |-> STATUS_TTL] : v \in StatusValues },
      er \in {Absent} \cup { [val |-> <<d>>, ttl |-> STATUS_TTL] : d \in ErrorDetails },
      inz \in {Absent, [val |-> <<JsonDumps(extract_insights(<<Segment(CaptionText(1))>>))>>,
                        ttl |-> CACHE_TTL]},
      tr \in {Absent, [val |-> <<JsonDumps(TranscriptData("youtube_api", <<Segment(CaptionText(1))>>))>>,
                       ttl |-> CACHE_TTL]} }

InitPoll ==
    /\ store \in PollStores
    /\ pc = [i \in Procs |-> "idle"]
    /\ kind = [i \in Procs |-> "none"]
    /\ tdata = [i \in Procs |-> <<>>]
    /\ ins = [i \in Procs |-> <<>>]
    /\ exc = [i \in Procs |-> ""]
    /\ resp = [i \in Procs |-> NoResp]
    /\ tasks = [i \in Procs |-> 0]
    /\ prov = [i \in Procs |-> <<>>]
    /\ cached = [i \in Procs |-> <<>>]
    /\ url = NoUrl
    /\ video_id = <<>>
    /\ nlp_in = <<>>
    /\ results = <<>>
    /\ whisper_in = <<>>
    /\ transcript = <<>>
    /\ redis = <<>>
    /\ wrote = [i \in Procs |-> <<>>]
    /\ statusBy = <<>>
    /\ errBy = 0
    /\ stale = [i \in Procs |-> FALSE]
    /\ hadStale = [i \in Procs |-> FALSE]
    /\ live = FALSE
    /\ before = [i \in Procs |-> {}]
    /\ alone = [i \in Procs |-> FALSE]

NextPoll ==
    \/ \E i \in Procs : PollStatus(i)
    \/ \E i \in Procs : PollInsights(i)
    \/ \E i \in Procs : PollError(i)
    \/ \E i \in Procs : Forget(i)
    \/ Tick

SpecPoll == InitPoll /\ [][NextPoll]_vars

\* ------------------------- extract_video_id (youtube_client.py 47-103) --
\* A URL string is kept in parts: "https://" or nothing, the host, the
\* path segments, a trailing "/" or not, and the query as key=value pairs.
\* An identifier is the sequence of the path segments it holds, joined by
\* "/" in the string: <<>> is the empty string.
Hosts == {"youtu.be", "www.youtube.com", "m.youtube.com", "example.com", "["}

Words == {"watch", "shorts", "live", "embed", "v", "abc123"}

Params == {<<"v", "abc123">>, <<"v", "">>, <<"t", "30s">>}

SeqsUpTo(S, n) == UNION { [1..k -> S] : k \in 0..n }

Urls == [scheme : BOOLEAN, host : Hosts, segs : SeqsUpTo(Words, MaxPathLen),
         slash : BOOLEAN, query : SeqsUpTo(Params, MaxQueryLen)]

DemoVideoId == "D9Ihs241zeg"

YouTubeHosts == {"www.youtube.com", "m.youtube.com"}

\* urlparse: without "//" there is no netloc and the host is the first
\* path segment; an unmatched "[" in the netloc raises ValueError.
urlparse(u) ==
    [raises |-> u.scheme /\ u.host = "[",
     netloc |-> IF u.scheme THEN u.host ELSE "",
     segs |-> IF u.scheme THEN u.segs ELSE <<u.host>> \o u.segs,
     slash |-> u.slash,
     query |-> u.query]

\* parse_qs(query)[key]: the values of key in order, blank values dropped.
parse_qs(q, key) ==
    LET kept == SelectSeq(q, LAMBDA p : p[1] = key /\ p[2] # "")
    IN [k \in 1..Len(kept) |-> kept[k][2]]

\* The five patterns, searched in the whole string: <<id>> or <<>>.
RegexFallback(u) ==
    IF /\ u.host \in YouTubeHosts /\ u.segs = <<"watch">> /\ ~u.slash
       /\ Len(u.query) >= 1 /\ u.query[1][1] = "v" /\ u.query[1][2] # ""
    THEN <<u.query[1][2]>>
    ELSE IF u.host = "youtu.be" /\ Len(u.segs) >= 1
    THEN <<u.segs[1]>>
    ELSE IF /\ u.host \in YouTubeHosts /\ Len(u.segs) >= 2
            /\ u.segs[1] \in {"shorts", "live", "embed", "v"}
    THEN <<u.segs[2]>>
    ELSE <<>>

Returned(id) == [raised |-> FALSE, id |-> id]

extract_video_id(u) ==
    LET parsed_url == urlparse(u) IN
    IF parsed_url.raises THEN [raised |-> TRUE, id |-> <<>>]
    ELSE IF parsed_url.netloc = "youtu.be"
    THEN Returned(parsed_url.segs)
    ELSE IF /\ parsed_url.netloc \in YouTubeHosts
            /\ parsed_url.segs = <<"watch">> /\ ~parsed_url.slash
            /\ parse_qs(parsed_url.query, "v") # <<>>
    THEN Returned(<<parse_qs(parsed_url.query, "v")[1]>>)
    ELSE IF /\ parsed_url.netloc \in YouTubeHosts
            /\ ~(parsed_url.segs = <<"watch">> /\ ~parsed_url.slash)
            /\ Len(parsed_url.segs) >= 1
            /\ parsed_url.segs[1] \in {"shorts", "live"}
            /\ (Len(parsed_url.segs) >= 2 \/ parsed_url.slash)
    THEN Returned(IF Len(parsed_url.segs) >= 2 THEN <<parsed_url.segs[2]>> ELSE <<>>)
    ELSE IF RegexFallback(u) # <<>>
    THEN Returned(RegexFallback(u))
    ELSE Returned(<<DemoVideoId>>)

\* The function is applied to the URL.
Extract ==
    /\ video_id = <<>>
    /\ video_id' = <<extract_video_id(url)>>
    /\ UNCHANGED <<url, store, pc, kind, locals, hist, calls>>

\* The same video under another spelling of the URL.
AppendSlash ==
    /\ ~url.slash
    /\ url' = [url EXCEPT !.slash = TRUE]
    /\ video_id' = <<>>
    /\ UNCHANGED <<store, pc, kind, locals, hist, calls>>

AddParam(p) ==
    /\ Len(url.query) < MaxQueryLen
    /\ url' = [url EXCEPT !.query = Append(@, p)]
    /\ video_id' = <<>>
    /\ UNCHANGED <<store, pc, kind, locals, hist, calls>>

ReorderParams ==
    /\ Len(url.query) >= 2
    /\ url' = [url EXCEPT !.query = [k \in 1..Len(@) |-> @[Len(@) + 1 - k]]]
    /\ video_id' = <<>>
    /\ UNCHANGED <<store, pc, kind, locals, hist, calls>>

InitExtract ==
    /\ url \in Urls
    /\ video_id = <<>>
    /\ nlp_in = <<>>
    /\ results = <<>>
    /\ whisper_in = <<>>
    /\ transcript = <<>>
    /\ redis = <<>>
    /\ store = [k \in Keys |-> Absent]
    /\ pc = [i \in Procs |-> "idle"]
    /\ kind = [i \in Procs |-> "none"]
    /\ tdata = [i \in Procs |-> <<>>]
    /\ ins = [i \in Procs |-> <<>>]
    /\ exc = [i \in Procs |-> ""]
    /\ resp = [i \in Procs |-> NoResp]
    /\ tasks = [i \in Procs |-> 0]
    /\ prov = [i \in Procs |-> <<>>]
    /\ cached = [i \in Procs |-> <<>>]
    /\ wrote = [i \in Procs |-> <<>>]
    /\ statusBy = <<>>
    /\ errBy = 0
    /\ stale = [i \in Procs |-> FALSE]
    /\ hadStale = [i \in Procs |-> FALSE]
    /\ live = FALSE
    /\ before = [i \in Procs |-> {}]
    /\ alone = [i \in Procs |-> FALSE]

NextExtract ==
    \/ Extract
    \/ AppendSlash
    \/ \E p \in Params : AddParam(p)
    \/ ReorderParams

SpecExtract == InitExtract /\ [][NextExtract]_vars

\* ----------------------- extract_insights (nlp_pipeline.py 29-134), run --
InsightSegments ==
    UNION { [1..n -> {Segment(w) : w \in SentimentWords}] : n \in 0..MaxSegs }

ExtractInsights ==
    /\ results = <<>>
    /\ \E outs \in (IF nlp_in.configured THEN [1..NUM_TOPICS -> GptOutcomes] ELSE {NoOutcomes}) :
          results' = <<[outs |-> outs,
                        records |-> extract_insights_for(nlp_in.selected_topics, nlp_in.segs,
                                                         nlp_in.configured, outs)]>>
    /\ UNCHANGED <<store, pc, kind, locals, hist, url, video_id, nlp_in, whisper_in, transcript, redis>>

InitInsights ==
    /\ nlp_in \in [selected_topics : Samples, segs : InsightSegments, configured : BOOLEAN]
    /\ results = <<>>
    /\ store = [k \in Keys |-> Absent]
    /\ pc = [i \in Procs |-> "idle"]
    /\ kind = [i \in Procs |-> "none"]
    /\ tdata = [i \in Procs |-> <<>>]
    /\ ins = [i \in Procs |-> <<>>]
    /\ exc = [i \in Procs |-> ""]
    /\ resp = [i \in Procs |-> NoResp]
    /\ tasks = [i \in Procs |-> 0]
    /\ prov = [i \in Procs |-> <<>>]
    /\ cached = [i \in Procs |-> <<>>]
    /\ url = NoUrl
    /\ video_id = <<>>
    /\ whisper_in = <<>>
    /\ transcript = <<>>
    /\ redis = <<>>
    /\ wrote = [i \in Procs |-> <<>>]
    /\ statusBy = <<>>
    /\ errBy = 0
    /\ stale = [i \in Procs |-> FALSE]
    /\ hadStale = [i \in Procs |-> FALSE]
    /\ live = FALSE
    /\ before = [i \in Procs |-> {}]
    /\ alone = [i \in Procs |-> FALSE]

NextInsights == ExtractInsights

SpecInsights == InitInsights /\ [][NextInsights]_vars


\* --------------------- fallback_whisper (youtube_client.py 158-235) --
\* What the download and the transcription do once the tools are there:
\* a response with text, a response without text, or one of the failures.
WhisperOutcomes ==
    {"spoken words", "no text", "download error", "file missing", "transcribe error"}

WhisperEnvs ==
    [yt_dlp : BOOLEAN, openai : BOOLEAN, key : BOOLEAN,
     outcome : WhisperOutcomes, details : BOOLEAN]

\* The returned Python value: a str or a list of segments.
PyStr(t) == [type |-> "str", str |-> t, list |-> <<>>]

PyList(l) == [type |-> "list", str |-> "", list |-> l]

fallback_whisper(w) ==
    IF ~w.yt_dlp THEN PyStr(get_mock_transcript(w.details))
    ELSE IF ~w.openai \/ ~w.key THEN PyStr(get_mock_transcript(w.details))
    ELSE IF w.outcome = "spoken words" THEN PyList(<<Segment("spoken words")>>)
    ELSE IF w.outcome = "no text" THEN PyList(<<Segment("")>>)
    ELSE PyList(<<Segment(get_mock_transcript(w.details))>>)

FallbackWhisper ==
    /\ transcript = <<>>
    /\ transcript' = <<fallback_whisper(whisper_in)>>
    /\ UNCHANGED <<store, pc, kind, locals, hist, url, video_id, nlp_in, results, whisper_in, redis>>

InitWhisper ==
    /\ whisper_in \in WhisperEnvs
    /\ transcript = <<>>
    /\ store = [k \in Keys |-> Absent]
    /\ pc = [i \in Procs |-> "idle"]
    /\ kind = [i \in Procs |-> "none"]
    /\ tdata = [i \in Procs |-> <<>>]
    /\ ins = [i \in Procs |-> <<>>]
    /\ exc = [i \in Procs |-> ""]
    /\ resp = [i \in Procs |-> NoResp]
    /\ tasks = [i \in Procs |-> 0]
    /\ prov = [i \in Procs |-> <<>>]
    /\ cached = [i \in Procs |-> <<>>]
    /\ url = NoUrl
    /\ video_id = <<>>
    /\ nlp_in = <<>>
    /\ results = <<>>
    /\ redis = <<>>
    /\ wrote = [i \in Procs |-> <<>>]
    /\ statusBy = <<>>
    /\ errBy = 0
    /\ stale = [i \in Procs |-> FALSE]
    /\ hadStale = [i \in Procs |-> FALSE]
    /\ live = FALSE
    /\ before = [i \in Procs |-> {}]
    /\ alone = [i \in Procs |-> FALSE]

NextWhisper == FallbackWhisper

SpecWhisper == InitWhisper /\ [][NextWhisper]_vars

\* ------------------------------------------- requests for two videos --
\* The store holds the keys of several identifiers; every request runs
\* command by command and names each key as f"{namespace}:{video_id}"
\* from the video_id of its own frame.
IsoUrls ==
    { [scheme |-> TRUE, host |-> "youtu.be", segs |-> <<"abc123">>,
       slash |-> FALSE, query |-> <<>>],
      [scheme |-> TRUE, host |-> "youtu.be", segs |-> <<"abc123", "v">>,
       slash |-> FALSE, query |-> <<>>],
      [scheme |-> TRUE, host |-> "www.youtube.com", segs |-> <<"watch">>,
       slash |-> FALSE, query |-> << <<"v", "abc123">> >>],
      [scheme |-> TRUE, host |-> "[", segs |-> <<>>,
       slash |-> FALSE, query |-> <<>>] }

IsoIds == { extract_video_id(u).id : u \in {w \in IsoUrls : ~extract_video_id(w).raised} }

\* f"status:{video_id}" and its siblings: the namespace, a colon, the id
Key(ns, id) == <<ns, ":">> \o id

IsoKeys == { Key(ns, id) : ns \in Keys, id \in IsoIds }

\* The keys of one identifier after an error run that followed a
\* completed one: all four present.
IsoFull(id, k) ==
    IF k = Key("status", id) THEN [val |-> <<"error">>, ttl |-> STATUS_TTL]
    ELSE IF k = Key("error", id) THEN [val |-> <<"transcript failure">>, ttl |-> STATUS_TTL]
    ELSE [val |-> <<"cached">>, ttl |-> CACHE_TTL]

IsoIdle == [kind |-> "none", url |-> NoUrl, video_id |-> <<>>, fetched |-> <<>>, at |-> "idle"]

rest == <<store, pc, kind, locals, hist, url, video_id, nlp_in, results, whisper_in, transcript>>

\* One Redis command of request i at the site "from": it names one key,
\* built from the identifier "id" of the frame that issues it.
Command(i, from, op, ns, id, v, t, to) ==
    /\ redis.req[i].at = from
    /\ id # <<>>
    /\ redis' = [redis EXCEPT
                   !.db = IF op = "DEL" THEN Delete(@, Key(ns, id[1]))
                          ELSE IF op = "SETEX" THEN SetEx(@, Key(ns, id[1]), t, v)
                          ELSE @,
                   !.last = [by |-> i, keys |-> {Key(ns, id[1])}],
                   !.req[i].at = to]
    /\ UNCHANGED rest

\* A handler that takes a URL starts: video_id = extract_video_id(url);
\* a raise ends the request before any command.
IsoStart(i, k, u, to) ==
    /\ redis.req[i].at = "idle"
    /\ redis' = [redis EXCEPT
                   !.last = [by |-> i, keys |-> {}],
                   !.req[i] = IF extract_video_id(u).raised
                              THEN [IsoIdle EXCEPT !.kind = k, !.url = u, !.at = "done"]
                              ELSE [IsoIdle EXCEPT !.kind = k, !.url = u, !.at = to,
                                                   !.video_id = <<extract_video_id(u).id>>]]
    /\ UNCHANGED rest

\* POST /videos/process, then the job it queued with (video_id, video_url)
IsoSubmit(i, u) == IsoStart(i, "submit", u, "submit_del_status")

IsoSubmitDelStatus(i) ==
    Command(i, "submit_del_status", "DEL", "status", redis.req[i].video_id, "", 0, "submit_del_error")

IsoSubmitDelError(i) ==
    Command(i, "submit_del_error", "DEL", "error", redis.req[i].video_id, "", 0, "submit_set_pending")

IsoSubmitSetPending(i) ==
    Command(i, "submit_set_pending", "SETEX", "status", redis.req[i].video_id, "pending", STATUS_TTL,
            "job_del_status")

IsoJobDelStatus(i) ==
    Command(i, "job_del_status", "DEL", "status", redis.req[i].video_id, "", 0, "job_del_error")

IsoJobDelError(i) ==
    Command(i, "job_del_error", "DEL", "error", redis.req[i].video_id, "", 0, "job_set_processing")

IsoJobSetProcessing(i) ==
    Command(i, "job_set_processing", "SETEX", "status", redis.req[i].video_id, "processing", STATUS_TTL,
            "fetch")

IsoJobSetInsights(i) ==
    Command(i, "job_set_insights", "SETEX", "insights", redis.req[i].video_id, "cached", CACHE_TTL,
            "job_set_completed")

IsoJobSetCompleted(i) ==
    Command(i, "job_set_completed", "SETEX", "status", redis.req[i].video_id, "completed", STATUS_TTL,
            "done")

IsoJobSetError(i) ==
    Command(i, "job_set_error", "SETEX", "error", redis.req[i].video_id, "transcript failure", STATUS_TTL,
            "job_set_status_error")

IsoJobSetStatusError(i) ==
    Command(i, "job_set_status_error", "SETEX", "status", redis.req[i].video_id, "error", STATUS_TTL,
            "done")

\* POST /process
IsoSync(i, u) == IsoStart(i, "sync", u, "sync_del_status")

IsoSyncDelStatus(i) ==
    Command(i, "sync_del_status", "DEL", "status", redis.req[i].video_id, "", 0, "sync_del_error")

IsoSyncDelError(i) ==
    Command(i, "sync_del_error", "DEL", "error", redis.req[i].video_id, "", 0, "fetch")

\* Faulty variant: fetch_transcript keeps the first path segment only.
IsoFetch_first(i) ==
    /\ redis.req[i].at = "fetch"
    /\ redis' = [redis EXCEPT
                   !.last = [by |-> i, keys |-> {}],
                   !.req[i].fetched = << <<extract_video_id(redis.req[i].url).id[1]>> >>,
                   !.req[i].at = "chain_del_error"]
    /\ UNCHANGED rest

\* fetch_transcript(url, redis_client) extracts the identifier again
\* and hands it to get_transcript.
IsoFetch(i) ==
    /\ redis.req[i].at = "fetch"
    /\ redis' = [redis EXCEPT
                   !.last = [by |-> i, keys |-> {}],
                   !.req[i].fetched = <<extract_video_id(redis.req[i].url).id>>,
                   !.req[i].at = "chain_del_error"]
    /\ UNCHANGED rest

\* get_transcript(video_id, redis_client)
IsoChainDelError(i) ==
    Command(i, "chain_del_error", "DEL", "error", redis.req[i].fetched, "", 0, "chain_del_status")

IsoChainDelStatus(i) ==
    Command(i, "chain_del_status", "DEL", "status", redis.req[i].fetched, "", 0, "chain_set_pending")

IsoChainSetPending(i) ==
    Command(i, "chain_set_pending", "SETEX", "status", redis.req[i].fetched, "pending", STATUS_TTL,
            "chain_get")

\* the cache lookup; on a miss the provider answers or fails
IsoChainGet(i, ok) ==
    /\ redis.req[i].fetched # <<>>
    /\ Command(i, "chain_get", "GET", "transcript", redis.req[i].fetched, "", 0,
               IF Has(redis.db, Key("transcript", redis.req[i].fetched[1])) THEN "chain_return"
               ELSE IF ok THEN "chain_cache_set" ELSE "chain_set_error")

IsoChainCacheSet(i) ==
    Command(i, "chain_cache_set", "SETEX", "transcript", redis.req[i].fetched, "cached", CACHE_TTL,
            "chain_return")

IsoChainSetError(i) ==
    Command(i, "chain_set_error", "SETEX", "error", redis.req[i].fetched, "transcript failure", STATUS_TTL,
            "chain_set_status_error")

IsoChainSetStatusError(i) ==
    Command(i, "chain_set_status_error", "SETEX", "status", redis.req[i].fetched, "error", STATUS_TTL,
            "chain_raise")

\* get_transcript returns to, or raises into, the handler that called it
IsoChainReturn(i) ==
    /\ redis.req[i].at \in {"chain_return", "chain_raise"}
    /\ redis' = [redis EXCEPT
                   !.last = [by |-> i, keys |-> {}],
                   !.req[i].at = IF redis.req[i].kind = "sync" THEN "done"
                                 ELSE IF redis.req[i].at = "chain_return" THEN "job_set_insights"
                                 ELSE "job_set_error"]
    /\ UNCHANGED rest

\* A poll takes its identifier from the path and reads the status.
IsoPoll(i, k, id) ==
    /\ redis.req[i].at = "idle"
    /\ redis' = [redis EXCEPT
                   !.last = [by |-> i, keys |-> {Key("status", id)}],
                   !.req[i] = [IsoIdle EXCEPT
                                 !.kind = k, !.video_id = <<id>>,
                                 !.at = IF k = "poll_insights" /\ redis.db[Key("status", id)].val = <<"completed">>
                                        THEN "poll_get_insights"
                                        ELSE IF k = "poll_error" /\ redis.db[Key("status", id)].val = <<"error">>
                                        THEN "poll_get_error"
                                        ELSE "done"]]
    /\ UNCHANGED rest

IsoPollGetInsights(i) ==
    Command(i, "poll_get_insights", "GET", "insights", redis.req[i].video_id, "", 0, "done")

IsoPollGetError(i) ==
    Command(i, "poll_get_error", "GET", "error", redis.req[i].video_id, "", 0, "done")

InitIso ==
    /\ redis \in { [db |-> [k \in IsoKeys |->
                              IF \E id \in full : k \in {Key(ns, id) : ns \in Keys}
                              THEN IsoFull(CHOOSE id \in full : k \in {Key(ns, id) : ns \in Keys}, k)
                              ELSE Absent],
                    req |-> [i \in Procs |-> IsoIdle],
                    last |-> [by |-> 0, keys |-> {}]] : full \in SUBSET IsoIds }
    /\ store = [k \in Keys |-> Absent]
    /\ pc = [i \in Procs |-> "idle"]
    /\ kind = [i \in Procs |-> "none"]
    /\ tdata = [i \in Procs |-> <<>>]
    /\ ins = [i \in Procs |-> <<>>]
    /\ exc = [i \in Procs |-> ""]
    /\ resp = [i \in Procs |-> NoResp]
    /\ tasks = [i \in Procs |-> 0]
    /\ prov = [i \in Procs |-> <<>>]
    /\ cached = [i \in Procs |-> <<>>]
    /\ url = NoUrl
    /\ video_id = <<>>
    /\ nlp_in = <<>>
    /\ results = <<>>
    /\ whisper_in = <<>>
    /\ transcript = <<>>
    /\ wrote = [i \in Procs |-> <<>>]
    /\ statusBy = <<>>
    /\ errBy = 0
    /\ stale = [i \in Procs |-> FALSE]
    /\ hadStale = [i \in Procs |-> FALSE]
    /\ live = FALSE
    /\ before = [i \in Procs |-> {}]
    /\ alone = [i \in Procs |-> FALSE]

NextIso ==
    \E i \in Procs :
        \/ \E u \in IsoUrls : IsoSubmit(i, u)
        \/ IsoSubmitDelStatus(i)
        \/ IsoSubmitDelError(i)
        \/ IsoSubmitSetPending(i)
        \/ IsoJobDelStatus(i)
        \/ IsoJobDelError(i)
        \/ IsoJobSetProcessing(i)
        \/ IsoJobSetInsights(i)
        \/ IsoJobSetCompleted(i)
        \/ IsoJobSetError(i)
        \/ IsoJobSetStatusError(i)
        \/ \E u \in IsoUrls : IsoSync(i, u)
        \/ IsoSyncDelStatus(i)
        \/ IsoSyncDelError(i)
        \/ IsoFetch(i)
        \/ IsoChainDelError(i)
        \/ IsoChainDelStatus(i)
        \/ IsoChainSetPending(i)
        \/ \E ok \in BOOLEAN : IsoChainGet(i, ok)
        \/ IsoChainCacheSet(i)
        \/ IsoChainSetError(i)
        \/ IsoChainSetStatusError(i)
        \/ IsoChainReturn(i)
        \/ \E id \in IsoIds : IsoPoll(i, "poll_status", id)
        \/ \E id \in IsoIds : IsoPoll(i, "poll_insights", id)
        \/ \E id \in IsoIds : IsoPoll(i, "poll_error", id)
        \/ IsoPollGetInsights(i)
        \/ IsoPollGetError(i)

SpecIso == InitIso /\ [][NextIso]_vars

\* ------------------------------------------------------------ helpers --
Status == GetStr(store, "status")

Terminal == {"completed", "error"}

IsPrefix(a, b) == Len(a) <= Len(b) /\ \A k \in 1..Len(a) : a[k] = b[k]

Range(f) == { f[k] : k \in DOMAIN f }

Quiescent == \A i \in Procs : pc[i] \in {"idle", "done"}

SubmitPcs == {"idle", "s_del_status", "s_del_error", "s_set_pending", "s_return"}

\* ------------------------------------------------------------- claims --

\* C1: whenever status is completed the insights entry is present and
\* non-empty, so GET /videos/insights answers 200 with the records and
\* never takes its "Insights not found" branch.
ThmC1_CompletedHasInsights ==
    Status = "completed" =>
        /\ Has(store, "insights")
        /\ get_video_insights(store).code = 200
        /\ Len(get_video_insights(store).body) > 0

\* A job has completed while another request is in flight.
WitC1_CompletedObserved ==
    /\ Status = "completed"
    /\ get_video_insights(store).code = 200
    /\ \E i \in Procs : InFlight(i)

\* C2: whenever status is error the error entry is present.
CexC2_ErrorHasDetail ==
    Status = "error" => Has(store, "error")

\* C3: the values one submission writes to status are pending, then
\* processing, then completed or error, and status reads processing while
\* its job fetches the transcript and generates the insights.
CexC3_StatusSequence ==
    \A i \in Procs :
        kind[i] = "submit" =>
            /\ \/ IsPrefix(wrote[i], <<"pending", "processing", "completed">>)
               \/ IsPrefix(wrote[i], <<"pending", "processing", "error">>)
            /\ (alone[i] /\ pc[i] \in {"g_fetch", "j_insights"} /\ Has(store, "status"))
                   => Status = "processing"

\* C4: a terminal status is changed or removed only by the submit handler
\* or by expiry.
CexC4_TerminalIsStable ==
    [][ (Status \in Terminal /\ store'["status"] # store["status"]) =>
            \/ (pc' = pc /\ ~Has(store', "status"))
            \/ \E i \in Procs : kind'[i] = "submit" /\ pc[i] \in SubmitPcs /\ pc'[i] # pc[i]
      ]_vars

\* C5: when no request is running and no job is queued, status is not left
\* at pending or processing.
CexC5_NoStuckStatus ==
    Quiescent => Status \notin {"pending", "processing"}

\* C6: once a submission has returned, status is present until it expires.
CexC6_StatusNeverMissing ==
    live => Has(store, "status")

\* C7: a submission that found the error entry of a finished run never has
\* its pending status coexist with that entry, and the entry is gone by
\* the time the submission has returned.
ThmC7_NoStaleError ==
    \A i \in Procs :
        stale[i] =>
            /\ ~(Status = "pending" /\ statusBy = <<i, "submit">>)
            /\ resp[i].code # 200

\* A resubmission after a failed run has written pending.
WitC7_ResubmittedAfterError ==
    \E i \in Procs :
        /\ hadStale[i]
        /\ Status = "pending"
        /\ statusBy = <<i, "submit">>
        /\ ~Has(store, "error")

\* C8: every step of the submit handler leaves transcript and insights
\* alone, changes the store only by deleting status, deleting error or
\* writing status = pending, runs neither the chain nor the generator, and
\* returns with exactly one job enqueued and the response pending.
ThmC8_SubmitFrame ==
    [][ \A i \in Procs :
          (kind'[i] = "submit" /\ pc[i] \in SubmitPcs /\ pc'[i] # pc[i]) =>
            /\ store'["transcript"] = store["transcript"]
            /\ store'["insights"] = store["insights"]
            /\ store' \in {store, Delete(store, "status"), Delete(store, "error"),
                           SetEx(store, "status", STATUS_TTL, "pending")}
            /\ pc'[i] \in (SubmitPcs \ {"idle"}) \cup {"queued", "done"}
            /\ tdata'[i] = <<>> /\ ins'[i] = <<>>
            /\ (pc'[i] = "queued" =>
                  /\ tasks'[i] = 1
                  /\ resp'[i] = [code |-> 200, body |-> "pending"]
                  /\ wrote'[i] = <<"pending">>)
      ]_vars

\* A submission has returned while the caches of an earlier run are there.
WitC8_SubmitReturned ==
    \E i \in Procs :
        /\ pc[i] = "queued"
        /\ tasks[i] = 1
        /\ Has(store, "transcript")
        /\ Has(store, "insights")

ThmC10_NoMutualExclusion ==
    \A i \in Procs : pc[i] = "j_set_completed" => ENABLED JobSetCompleted(i)

\* The first job's terminal status is in the store after the second
\* submission wrote its own, while the second has not finished.
WitC10_FirstJobOverwrites ==
    \E i, j \in Procs :
        /\ i # j
        /\ kind[i] = "submit" /\ kind[j] = "submit"
        /\ i \in before[j]
        /\ Status \in Terminal
        /\ statusBy = <<i, "job">>
        /\ "pending" \in Range(wrote[j])
        /\ InFlight(j)

\* Where get_transcript hands its result back, and the commands inside it.
ReturnPcs == {"j_insights", "p_insights"}

ChainPcs == {"g_del_error", "g_del_status", "g_set_pending", "g_cache_get",
             "g_fetch", "g_cache_set", "g_set_error", "g_set_status_error"}

\* C11: a lookup that finds transcript:{id} returns the decoded entry, goes
\* straight back to the caller (no provider call, no mock transcript) and
\* leaves the store, the entry and its TTL included, as it was; so every
\* call under a warm cache returns the same result.
ThmC11_CacheHitReturnsEntry ==
    [][ \A i \in Procs :
          (pc[i] = "g_cache_get" /\ Has(store, "transcript") /\ pc'[i] # pc[i]) =>
            /\ tdata'[i] = <<JsonLoads(store["transcript"].val[1])>>
            /\ pc'[i] \in ReturnPcs
            /\ prov'[i] = <<>>
            /\ store' = store
      ]_vars

\* A call has returned the cached entry.
WitC11_ReturnedFromCache ==
    \E i \in Procs :
        /\ pc[i] \in ReturnPcs
        /\ cached[i] # <<>>
        /\ tdata[i] = <<JsonLoads(cached[i][1])>>
        /\ store["transcript"].val = cached[i]

\* C12: on a miss where the provider has no captions (the explicit signal
\* or an empty list) the result has source mock_data and exactly one
\* segment with non-empty text, and the write that follows stores exactly
\* that result under transcript:{id} with the 86400 s TTL and returns it.
ThmC12_NoCaptionsGivesMock ==
    [][ \A i \in Procs :
          /\ (pc[i] = "g_fetch" /\ pc'[i] # pc[i] /\ prov'[i][1].kind # "error"
                /\ prov'[i][1].segs = <<>>) =>
                /\ pc'[i] = "g_cache_set"
                /\ tdata'[i][1].source = "mock_data"
                /\ Len(tdata'[i][1].segments) = 1
                /\ tdata'[i][1].segments[1].text # ""
          /\ (pc[i] = "g_cache_set" /\ pc'[i] \in ReturnPcs) =>
                /\ store'["transcript"] = [val |-> <<JsonDumps(tdata[i][1])>>, ttl |-> 86400]
                /\ tdata'[i] = tdata[i]
      ]_vars

\* A later call has returned the mock result from the cache.
WitC12_MockServedFromCache ==
    \E i \in Procs :
        /\ pc[i] \in ReturnPcs
        /\ cached[i] # <<>>
        /\ tdata[i][1].source = "mock_data"
        /\ Len(tdata[i][1].segments) = 1
        /\ store["transcript"].ttl < 86400

\* C13: whatever the provider does, the provider step ends with a result
\* of at least one segment and no exception, and every result handed back
\* to a caller has at least one segment.
ThmC13_ChainAlwaysHasSegments ==
    [][ \A i \in Procs :
          /\ (pc[i] = "g_fetch" /\ pc'[i] # pc[i]) =>
                /\ pc'[i] = "g_cache_set"
                /\ exc'[i] = ""
                /\ Len(tdata'[i][1].segments) >= 1
          /\ pc'[i] \in ReturnPcs =>
                /\ tdata'[i] # <<>>
                /\ Len(tdata'[i][1].segments) >= 1
      ]_vars

\* A provider error has been downgraded to the mock result.
WitC13_ProviderErrorDowngraded ==
    \E i \in Procs :
        /\ pc[i] = "g_cache_set"
        /\ prov[i] # <<>>
        /\ prov[i][1].kind = "error"
        /\ exc[i] = ""
        /\ tdata[i][1].source = "mock_data"
        /\ Len(tdata[i][1].segments) = 1

\* C14: no command of get_transcript changes status:{id} or error:{id}.
CexC14_ChainKeepsToItsNamespace ==
    [][ \A i \in Procs :
          (pc[i] \in ChainPcs /\ pc'[i] # pc[i]) =>
            /\ store'["status"] = store["status"]
            /\ store'["error"] = store["error"]
      ]_vars

\* C15: every entry carries an expiry, and every write sets the TTL of its
\* namespace: 3600 s for status and error, 86400 s for transcript and
\* insights.
NamespaceTTL(k) == IF k \in {"status", "error"} THEN 3600 ELSE 86400

ThmC15_TTLByNamespace ==
    [][ \A k \in Keys :
          /\ Has(store', k) => store'[k].ttl \in 1..NamespaceTTL(k)
          /\ (pc' # pc /\ store'[k] # store[k] /\ Has(store', k)) =>
                store'[k].ttl = NamespaceTTL(k)
      ]_vars

\* All four keys have just been written.
WitC15_AllKeysFresh ==
    \A k \in Keys : Has(store, k) /\ store[k].ttl = NamespaceTTL(k)

\* C18: a finished POST /process has answered either 200 with both the
\* topics and the transcript, the transcript being the segment texts of
\* the fetched result in order, or a bare 500; a failed extraction or
\* transcript fetch always gives the 500.
ThmC18_SyncAllOrNothing ==
    \A i \in Procs :
        (kind[i] = "sync" /\ pc[i] = "done") =>
            /\ \/ /\ resp[i].code = 200
                  /\ DOMAIN resp[i] = {"code", "topics", "transcript"}
                  /\ Len(resp[i].topics) = NUM_TOPICS
                  /\ tdata[i] # <<>>
                  /\ resp[i].transcript =
                        [k \in 1..Len(tdata[i][1].segments) |-> tdata[i][1].segments[k].text]
               \/ /\ resp[i].code = 500
                  /\ DOMAIN resp[i] = {"code", "body"}
            /\ (tdata[i] = <<>> \/ exc[i] # "") => resp[i].code = 500

\* A synchronous request has answered with a transcript of two segments.
WitC18_SyncAnswered ==
    \E i \in Procs :
        /\ kind[i] = "sync"
        /\ pc[i] = "done"
        /\ resp[i].code = 200
        /\ resp[i].transcript = <<"caption one", "caption more">>

\* C16: GET /videos/insights answers from the store contents alone: 404
\* without a status entry (cached insights or not), 400 under a status
\* other than completed, 404 under completed without an insights entry,
\* and otherwise 200 with the decoded insights entry; the store is left
\* as it was.
ThmC16_InsightsByStoreState ==
    [][ \A i \in Procs :
          (pc[i] = "idle" /\ kind'[i] = "poll_insights") =>
            LET st == store["status"].val IN
            /\ st = <<>> => resp'[i].code = 404
            /\ (st # <<>> /\ st # <<"completed">>) => resp'[i].code = 400
            /\ (st = <<"completed">> /\ ~Has(store, "insights")) => resp'[i].code = 404
            /\ (st = <<"completed">> /\ Has(store, "insights")) =>
                  /\ resp'[i].code = 200
                  /\ resp'[i].body = JsonLoads(store["insights"].val[1])
            /\ resp'[i].code # 200 => resp'[i].body = <<>>
            /\ store' = store
      ]_vars

\* Insights were asked for with no status entry while an insights entry
\* from an earlier run is still cached, and the answer was 404.
WitC16_UnknownDespiteCachedInsights ==
    \E i \in Procs :
        /\ kind[i] = "poll_insights"
        /\ pc[i] = "done"
        /\ resp[i].code = 404
        /\ ~Has(store, "status")
        /\ Has(store, "insights")

\* C17: GET /videos/error answers 404 whenever the status entry is absent
\* or not error, with or without an error entry, and answers 200 only
\* under status error, with the stored detail when there is one.
ThmC17_ErrorOnlyUnderErrorStatus ==
    [][ \A i \in Procs :
          (pc[i] = "idle" /\ kind'[i] = "poll_error") =>
            LET st == store["status"].val IN
            /\ st # <<"error">> => (resp'[i].code = 404 /\ resp'[i].body = <<>>)
            /\ st = <<"error">> =>
                  /\ resp'[i].code = 200
                  /\ Has(store, "error") => resp'[i].body = store["error"].val
            /\ store' = store
      ]_vars

\* The error was asked for under status completed while an error entry
\* exists, and the answer was 404.
WitC17_ErrorEntryHidden ==
    \E i \in Procs :
        /\ kind[i] = "poll_error"
        /\ pc[i] = "done"
        /\ resp[i].code = 404
        /\ GetStr(store, "status") = "completed"
        /\ Has(store, "error")

\* The input carries an identifier in one of the recognized places: a
\* non-blank v parameter under /watch, the path of a short link, or the
\* segment after /shorts, /live, /embed or /v.
HasIdentifier(u) ==
    \/ u.host \in YouTubeHosts /\ u.segs = <<"watch">> /\ parse_qs(u.query, "v") # <<>>
    \/ u.host = "youtu.be" /\ Len(u.segs) >= 1
    \/ u.host \in YouTubeHosts /\ Len(u.segs) >= 2
          /\ u.segs[1] \in {"shorts", "live", "embed", "v"}

\* A full URL of a recognized shape, and the identifier it names.
RecognizedShape(u) ==
    /\ u.scheme
    /\ HasIdentifier(u)
    /\ u.host = "youtu.be" => Len(u.segs) = 1
    /\ u.host # "youtu.be" => Len(u.segs) <= 2

Identifier(u) ==
    IF u.host = "youtu.be" THEN u.segs[1]
    ELSE IF Len(u.segs) = 2 THEN u.segs[2]
    ELSE parse_qs(u.query, "v")[1]

\* C19: for every full URL of a recognized shape the function returns
\* exactly the identifier segment or the v value, whatever the order of
\* the parameters, whatever other parameters there are, and with or
\* without a trailing slash on the path.
CexC19_RecognizedShapesExtracted ==
    (video_id # <<>> /\ RecognizedShape(url)) =>
        /\ ~video_id[1].raised
        /\ video_id[1].id = <<Identifier(url)>>

\* C20: the function never raises, and an input that carries no
\* identifier in a recognized place (an empty identifier segment under a
\* recognized host included) gives the demo identifier.
CexC20_TotalWithSentinel ==
    video_id # <<>> =>
        /\ ~video_id[1].raised
        /\ ~HasIdentifier(url) => video_id[1].id = <<DemoVideoId>>

\* C21: for a full URL on the short-link host with a path, the function
\* returns the first path segment alone; later segments and the query are
\* not part of the identifier.
CexC21_ShortLinkFirstSegment ==
    (video_id # <<>> /\ url.scheme /\ url.host = "youtu.be" /\ Len(url.segs) >= 1) =>
        /\ ~video_id[1].raised
        /\ video_id[1].id = <<url.segs[1]>>

\* The selected topics whose completion raised.
FailedTopics == {k \in 1..NUM_TOPICS : results[1].outs[k] = "error"}

\* C22: when the completion fails for exactly one of the selected topics,
\* six records are returned, the record of that topic has the fallback
\* insight texts and sentiment neutral, and the other five have the
\* insights generated for them.
CexC22_FailedTopicIsNeutral ==
    (results # <<>> /\ nlp_in.configured /\ Cardinality(FailedTopics) = 1) =>
        /\ Len(results[1].records) = 6
        /\ \A k \in 1..6 :
              IF k \in FailedTopics
              THEN /\ results[1].records[k].insights = GptFallback
                   /\ results[1].records[k].sentiment = "neutral"
              ELSE results[1].records[k].insights # GptFallback

\* C25: every call that returns, with the model key configured or not,
\* returns six records whose names are pairwise distinct topics of the
\* eight-topic table, each with one of the three sentiments and at least
\* one insight.
ThmC25_SixDistinctRecords ==
    results # <<>> =>
        LET r == results[1].records IN
        /\ Len(r) = 6
        /\ \A a, b \in 1..Len(r) : a # b => r[a].name # r[b].name
        /\ \A k \in 1..Len(r) :
              /\ r[k].name \in 1..8
              /\ r[k].sentiment \in {"positive", "negative", "neutral"}
              /\ Len(r[k].insights) >= 1

\* A call with the key configured has returned although one completion
\* was blank and another raised; the transcript reads positive.
WitC25_ConfiguredCallReturned ==
    /\ results # <<>>
    /\ nlp_in.configured
    /\ \E a, b \in 1..NUM_TOPICS :
          results[1].outs[a] = "blank" /\ results[1].outs[b] = "error"
    /\ results[1].records[1].sentiment = "positive"

\* C23: once transcript:{id} is written, no step replaces its value with
\* a different one while it is present.
CexC23_TranscriptNeverReplaced ==
    [][ (Has(store, "transcript") /\ Has(store', "transcript")) =>
            store'["transcript"].val = store["transcript"].val
      ]_vars

\* C24: in every outcome fallback_whisper returns a list of exactly one
\* segment with start 0 and duration 0, whose text is the transcribed text
\* after a successful transcription and the mock transcript otherwise.
CexC24_WhisperOneSegment ==
    transcript # <<>> =>
        /\ transcript[1].type = "list"
        /\ Len(transcript[1].list) = 1
        /\ transcript[1].list[1].start = 0
        /\ transcript[1].list[1].duration = 0
        /\ transcript[1].list[1].text =
              IF /\ whisper_in.yt_dlp /\ whisper_in.openai /\ whisper_in.key
                 /\ whisper_in.outcome \in {"spoken words", "no text"}
              THEN (IF whisper_in.outcome = "spoken words" THEN "spoken words" ELSE "")
              ELSE get_mock_transcript(whisper_in.details)

ThmC29_CachesOnlyExpire ==
    [][ /\ \A k \in {"transcript", "insights"} :
              (Has(store, k) /\ ~Has(store', k)) =>
                  (pc' = pc /\ store[k].ttl <= TickSeconds)
        /\ get_video_insights(store').code = 200 => GetStr(store', "status") = "completed"
      ]_vars

\* A later run of the job has ended in error while the insights of an
\* earlier completed run are still stored; they are not served.
WitC29_InsightsSurviveErrorRun ==
    \E i \in Procs :
        /\ kind[i] = "submit"
        /\ pc[i] = "done"
        /\ exc[i] # ""
        /\ GetStr(store, "status") = "error"
        /\ Has(store, "insights")
        /\ get_video_insights(store).code = 400

\* C28: a poll of any of the three endpoints, in any store state, changes
\* no key and no expiry, and answers with one of the responses of its
\* endpoint: a status value or not_found; 200, 400 or 404 for the
\* insights; 200 with one detail or 404 for the error.
ThmC28_PollsReadOnly ==
    [][ \A i \in Procs :
          (pc[i] = "idle" /\ kind'[i] \in {"poll_status", "poll_insights", "poll_error"}) =>
            /\ store' = store
            /\ kind'[i] = "poll_status" =>
                  /\ resp'[i].code = 200
                  /\ resp'[i].body \in { <<v>> : v \in StatusValues \cup {"not_found"} }
            /\ kind'[i] = "poll_insights" => resp'[i].code \in {200, 400, 404}
            /\ kind'[i] = "poll_error" =>
                  /\ resp'[i].code \in {200, 404}
                  /\ resp'[i].code = 200 => Len(resp'[i].body) = 1
      ]_vars

\* The status and the insights have been polled while a job is between
\* its processing and completed writes, every key being present.
WitC28_PolledMidJob ==
    /\ \A k \in Keys : Has(store, k)
    /\ GetStr(store, "status") = "processing"
    /\ \E i, j \in Procs :
          /\ kind[i] = "poll_status" /\ pc[i] = "done" /\ resp[i].body = <<"processing">>
          /\ kind[j] = "poll_insights" /\ pc[j] = "done" /\ resp[j].code = 400

\* The identifier a request is for: the one in the path of a poll, the
\* one its URL designates otherwise.
IsoIdentifier(r) ==
    IF r.kind \in {"poll_status", "poll_insights", "poll_error"} THEN r.video_id
    ELSE IF r.kind = "none" \/ extract_video_id(r.url).raised THEN <<>>
    ELSE <<extract_video_id(r.url).id>>

\* C27: every step of a submit, job, synchronous request or poll for an
\* identifier names only keys of that identifier and leaves every key
\* of every other identifier as it was, whatever the other requests do
\* in between.
ThmC27_IsolatedPerIdentifier ==
    [][ \A i \in Procs :
          redis'.req[i] # redis.req[i] =>
            /\ redis'.last.by = i
            /\ \A k \in redis'.last.keys :
                  /\ IsoIdentifier(redis'.req[i]) # <<>>
                  /\ k \in { Key(ns, IsoIdentifier(redis'.req[i])[1]) : ns \in Keys }
            /\ \A B \in IsoIds :
                  <<B>> # IsoIdentifier(redis'.req[i]) =>
                      \A ns \in Keys : redis'.db[Key(ns, B)] = redis.db[Key(ns, B)]
      ]_vars

\* A job for one video has completed and a synchronous request for the
\* other has failed, both from an empty store: each left its own keys
\* and none of the other's.
WitC27_TwoVideosSideBySide ==
    /\ redis # <<>>
    /\ \E i, j \in Procs :
          /\ redis.req[i].kind = "submit" /\ redis.req[i].at = "done"
          /\ redis.req[j].kind = "sync" /\ redis.req[j].at = "done"
          /\ IsoIdentifier(redis.req[i]) = << <<"abc123">> >>
          /\ IsoIdentifier(redis.req[j]) = << <<"abc123", "v">> >>
          /\ redis.db[Key("status", <<"abc123">>)].val = <<"completed">>
          /\ Has(redis.db, Key("insights", <<"abc123">>))
          /\ ~Has(redis.db, Key("error", <<"abc123">>))
          /\ redis.db[Key("status", <<"abc123", "v">>)].val = <<"error">>
          /\ Has(redis.db, Key("error", <<"abc123", "v">>))
          /\ ~Has(redis.db, Key("insights", <<"abc123", "v">>))
          /\ ~Has(redis.db, Key("transcript", <<"abc123", "v">>))

====
